---------------------------- MODULE Spec2Model ----------------------------
(***************************************************************************)
(* Model of run.py of the cookbook renderer: the rebuild coordinator       *)
(* (main, CookbookEventHandler.on_any_event, the global lock), the         *)
(* directory and recipe renderers (render_dir, render_file) acting on a    *)
(* filesystem, and the pure helpers highlight_steps and split_path.        *)
(*                                                                         *)
(* Strings are sequences of tokens.  A token stands for a fixed piece of   *)
(* text; every token is one character long except the ones CharLen lists.  *)
(* Slices that the code takes by character count (path[len(RECIPE_DIR)+1:],*)
(* x[:-5]) are taken by character count here too.                          *)
(***************************************************************************)
EXTENDS Integers, Sequences, FiniteSets, TLC

-----------------------------------------------------------------------------
(* Strings *)

CharLen(tok) ==
    CASE tok = ".cook" -> 5
      [] tok = ".jpg" -> 4
      [] tok = ".png" -> 4
      [] tok = "static" -> 6
      [] tok = "img" -> 3
      [] tok = "index.html" -> 10
      [] tok = "print.html" -> 10
      [] tok = "styles.css" -> 10
      [] OTHER -> 1

\* Tokens in the order of Python's string comparison of the texts they stand for.
TokenOrder == << ".cook", ".jpg", ".png", "/", "2", "a", "b", "h", "img",
                 "index.html", "print.html", "r", "static", "styles.css" >>

TokenRank(tok) == CHOOSE i \in 1..Len(TokenOrder) : TokenOrder[i] = tok

\* s < t for Python strings.
RECURSIVE StrLess(_, _)
StrLess(s, t) ==
    IF t = <<>> THEN FALSE
    ELSE IF s = <<>> THEN TRUE
    ELSE IF Head(s) = Head(t) THEN StrLess(Tail(s), Tail(t))
    ELSE TokenRank(Head(s)) < TokenRank(Head(t))

\* s.startswith(p)
StartsWith(s, p) == Len(s) >= Len(p) /\ SubSeq(s, 1, Len(p)) = p

\* s.endswith(p)
EndsWith(s, p) == Len(s) >= Len(p) /\ SubSeq(s, Len(s) - Len(p) + 1, Len(s)) = p

\* s[n:] with n counted in characters.
RECURSIVE DropChars(_, _)
DropChars(s, n) ==
    IF n <= 0 \/ s = <<>> THEN s
    ELSE DropChars(Tail(s), n - CharLen(Head(s)))

\* len(s) in characters.
RECURSIVE StrLen(_)
StrLen(s) == IF s = <<>> THEN 0 ELSE CharLen(Head(s)) + StrLen(Tail(s))

\* s[:-n] with n counted in characters.
RECURSIVE DropLastChars(_, _)
DropLastChars(s, n) ==
    IF n <= 0 \/ s = <<>> THEN s
    ELSE DropLastChars(SubSeq(s, 1, Len(s) - 1), n - CharLen(s[Len(s)]))

\* The sorted list of a set of strings: list.sort() / sorted().
RECURSIVE SortStrs(_)
SortStrs(S) ==
    IF S = {} THEN <<>>
    ELSE LET m == CHOOSE x \in S : \A y \in S \ {x} : StrLess(x, y)
         IN  <<m>> \o SortStrs(S \ {m})

-----------------------------------------------------------------------------
(* os.path *)

Sep == <<"/">>

\* Index of the last "/" of p, 0 when there is none.
LastSep(p) ==
    IF \E i \in 1..Len(p) : p[i] = "/"
    THEN CHOOSE i \in 1..Len(p) : p[i] = "/" /\ \A j \in (i+1)..Len(p) : p[j] # "/"
    ELSE 0

RECURSIVE RStripSep(_)
RStripSep(p) ==
    IF p # <<>> /\ p[Len(p)] = "/" THEN RStripSep(SubSeq(p, 1, Len(p) - 1)) ELSE p

\* os.path.split(p): <<head, tail>>.
os_path_split(p) ==
    LET i    == LastSep(p)
        head == SubSeq(p, 1, i)
        tail == SubSeq(p, i + 1, Len(p))
    IN  << IF head # <<>> /\ RStripSep(head) # <<>> THEN RStripSep(head) ELSE head,
           tail >>

\* os.path.join(a, b)
os_path_join(a, b) ==
    IF StartsWith(b, Sep) THEN b
    ELSE IF a = <<>> \/ EndsWith(a, Sep) THEN a \o b
    ELSE a \o Sep \o b

\* The names a path string resolves through: its components, empty ones dropped.
RECURSIVE Resolve(_)
Resolve(p) ==
    IF p = <<>> THEN <<>>
    ELSE LET i == LastSep(p)
             tail == SubSeq(p, i + 1, Len(p))
             rest == Resolve(RStripSep(SubSeq(p, 1, i)))
         IN  IF tail = <<>> THEN rest ELSE Append(rest, tail)


\* split_path(path), lines 213-225: the components of path, root first.
RECURSIVE split_path_loop(_, _)
split_path_loop(p, parts) ==
    LET headtail == os_path_split(p)
    IN  IF headtail[1] \notin {<<>>, Sep}
        THEN split_path_loop(headtail[1], <<headtail[2]>> \o parts)
        ELSE IF headtail[1] = Sep
             THEN <<Sep, headtail[2]>> \o parts
             ELSE <<headtail[2]>> \o parts

split_path(path) == split_path_loop(path, <<>>)

-----------------------------------------------------------------------------
(* The filesystem: a function from resolved paths (sequences of names) to   *)
(* nodes.  A directory is [kind |-> "dir", content |-> <<>>]; a file holds  *)
(* the sequence of chunks written to it.                                    *)

DirNode == [kind |-> "dir", content |-> <<>>]
FileNode(content) == [kind |-> "file", content |-> content]

Exists(f, p) == p \in DOMAIN f
IsDir(f, p) == p \in DOMAIN f /\ f[p].kind = "dir"
IsFile(f, p) == p \in DOMAIN f /\ f[p].kind = "file"

\* q is p or lies beneath it.
Under(p, q) == Len(q) >= Len(p) /\ SubSeq(q, 1, Len(p)) = p

Parent(p) == SubSeq(p, 1, Len(p) - 1)

\* The names of the entries of directory p.
ListDir(f, p) == { q[Len(q)] : q \in { r \in DOMAIN f : Len(r) = Len(p) + 1 /\ Under(p, r) } }

\* A result of an operation that may raise: the filesystem it leaves and the
\* exception raised ("" for none).
Ok(f) == [fs |-> f, err |-> ""]
Raise(f, e) == [fs |-> f, err |-> e]

\* shutil.rmtree(x, ignore_errors=True): removes the directory x and all beneath
\* it; on anything that is not a directory the error is ignored and nothing changes.
rmtree(f, x) ==
    LET p == Resolve(x)
    IN  IF IsDir(f, p) /\ p # <<>>
        THEN [q \in { r \in DOMAIN f : ~Under(p, r) } |-> f[q]]
        ELSE f

\* glob.glob(pattern) for a pattern ending in "/*": the entries of the directory,
\* each joined to the pattern's directory name.
glob(f, pattern) ==
    LET dirname == os_path_split(pattern)[1]
    IN  IF IsDir(f, Resolve(dirname))
        THEN { os_path_join(dirname, n) : n \in ListDir(f, Resolve(dirname)) }
        ELSE {}

\* os.makedirs(path): creates the directory and its missing ancestors.
makedirs(f, path) ==
    LET p == Resolve(path)
        missing == { SubSeq(p, 1, i) : i \in 0..Len(p) } \ DOMAIN f
    IN  IF Exists(f, p) THEN Raise(f, "FileExistsError")
        ELSE IF \E i \in 0..Len(p) : IsFile(f, SubSeq(p, 1, i))
        THEN Raise(f, "NotADirectoryError")
        ELSE Ok([q \in missing |-> DirNode] @@ f)

\* The content before the write as a faulty variant would leave it: the file opened in
\* append mode, its old content kept.
open_a(old) == old

\* The content open(path, "w") leaves before the write: the file truncated.
open_w(old) == <<>>

\* with open(path, "w") as fh: fh.write(chunk)
write_file(f, path, chunk) ==
    LET p == Resolve(path)
    IN  IF p = <<>> \/ IsDir(f, p) THEN Raise(f, "IsADirectoryError")
        ELSE IF ~IsDir(f, Parent(p)) THEN Raise(f, "FileNotFoundError")
        ELSE Ok((p :> FileNode(open_w(IF IsFile(f, p) THEN f[p].content ELSE <<>>)
                               \o <<chunk>>)) @@ f)

\* shutil.copy(src, dst): into dst when dst is a directory, else onto dst.
shutil_copy(f, src, dst) ==
    LET s == Resolve(src)
        d == IF IsDir(f, Resolve(dst))
             THEN Resolve(os_path_join(dst, os_path_split(src)[2]))
             ELSE Resolve(dst)
    IN  IF ~IsFile(f, s) THEN Raise(f, "FileNotFoundError")
        ELSE IF IsDir(f, d) THEN Raise(f, "IsADirectoryError")
        ELSE IF ~IsDir(f, Parent(d)) THEN Raise(f, "FileNotFoundError")
        ELSE Ok((d :> FileNode(f[s].content)) @@ f)

\* shutil.copytree(src, dst): dst must not exist; copies the tree beneath src.
copytree(f, src, dst) ==
    LET s == Resolve(src)
        d == Resolve(dst)
        made == makedirs(f, dst)
    IN  IF ~IsDir(f, s) THEN Raise(f, "FileNotFoundError")
        ELSE IF made.err # "" THEN made
        ELSE Ok([q \in { d \o SubSeq(r, Len(s) + 1, Len(r)) : r \in { x \in DOMAIN f : Under(s, x) } }
                    |-> f[s \o SubSeq(q, Len(d) + 1, Len(q))]] @@ made.fs)

-----------------------------------------------------------------------------
(* highlight_steps.  Step texts, names, amounts and units are sequences of  *)
(* one-character tokens, so offsets are character offsets.                  *)

pre_name == << "<", "s", "p", "a", "n", " ", "c", "l", "a", "s", "s", "=", "i", "n", "g", "r", "-", "n", "a", "m", "e", "-", "i", "n", "l", "i", "n", "e", ">" >>
post_name == << "<", "/", "s", "p", "a", "n", ">" >>
pre_quantity == << "<", "s", "p", "a", "n", " ", "c", "l", "a", "s", "s", "=", "i", "n", "g", "r", "-", "q", "u", "a", "n", "t", "i", "t", "y", "-", "i", "n", "l", "i", "n", "e", ">", "(" >>
post_quantity == << ")", "<", "/", "s", "p", "a", "n", ">" >>

\* ingr.quantity of an ingredient without one (None).
NoQuantity == [present |-> FALSE, amount |-> <<>>, unit |-> <<>>]
Quantity(amount, unit) == [present |-> TRUE, amount |-> amount, unit |-> unit]

Min(a, b) == IF a <= b THEN a ELSE b

\* s[i:j] for 0 <= i, 0 <= j.
Slice(s, i, j) == SubSeq(s, Min(i, Len(s)) + 1, Min(j, Len(s)))

\* Tuple comparison of two locations (step index, start, end).
LocLess(a, b) ==
    \/ a[1] < b[1]
    \/ a[1] = b[1] /\ a[2] < b[2]
    \/ a[1] = b[1] /\ a[2] = b[2] /\ a[3] < b[3]

\* sorted(ingredients, key=lambda x: x.location): stable, ascending.
RECURSIVE sorted_by_location(_)
sorted_by_location(ingredients) ==
    IF ingredients = <<>> THEN <<>>
    ELSE LET n    == Len(ingredients)
             last == ingredients[n]
             rest == sorted_by_location(SubSeq(ingredients, 1, n - 1))
             k    == Cardinality({ i \in 1..Len(rest) : ~LocLess(last.location, rest[i].location) })
         IN  SubSeq(rest, 1, k) \o <<last>> \o SubSeq(rest, k + 1, Len(rest))

Reverse(s) == [i \in 1..Len(s) |-> s[Len(s) + 1 - i]]

\* The order the loop of line 194 takes the ingredients in, as a faulty variant would:
\* ascending, the reversed() forgotten.
highlight_order_ascending(ingredients) == sorted_by_location(ingredients)

\* reversed(sorted(ingredients, key=lambda x: x.location))
highlight_order(ingredients) == Reverse(sorted_by_location(ingredients))

\* quantity_str of lines 201-206.
quantity_str(ingr) ==
    IF ingr.quantity.present
    THEN pre_quantity \o ingr.quantity.amount
         \o (IF ingr.quantity.unit # <<>> THEN <<" ">> \o ingr.quantity.unit ELSE <<>>)
         \o post_quantity
    ELSE <<>>

\* new_step as a faulty variant would leave it: the placeholder of line 200.
new_step_todo(old_step, ingr) ==
    Slice(old_step, 0, ingr.location[2]) \o << "T", "O", "D", "O" >>
        \o Slice(old_step, ingr.location[3], Len(old_step))

\* new_step of line 207.
new_step(old_step, ingr) ==
    Slice(old_step, 0, ingr.location[2]) \o pre_name \o ingr.name \o post_name
        \o quantity_str(ingr) \o Slice(old_step, ingr.location[3], Len(old_step))

\* The loop body, lines 195-209, on the list hl_steps; an index past the end
\* raises IndexError and leaves the list as it is.
RECURSIVE highlight_loop(_, _)
highlight_loop(order, hl_steps) ==
    IF order = <<>> THEN [steps |-> hl_steps, err |-> ""]
    ELSE LET ingr == Head(order)
             step_index == ingr.location[1]
         IN  IF step_index >= Len(hl_steps)
             THEN [steps |-> hl_steps, err |-> "IndexError"]
             ELSE highlight_loop(Tail(order),
                      [hl_steps EXCEPT ![step_index + 1] = new_step(hl_steps[step_index + 1], ingr)])

\* highlight_steps(ingredients, steps): the list it returns, which is the list
\* object it was given (hl_steps = steps, line 193), and the exception raised.
highlight_steps(ingredients, steps) == highlight_loop(highlight_order(ingredients), steps)

-----------------------------------------------------------------------------
(* Configuration, lines 15-18, and the external recipe parser.              *)

RECIPE_DIR == <<"/", "r">>
HTML_PATH == <<"/", "h">>
\* "static/", relative to the working directory, which is the root here.
STATIC_SRC == <<"static", "/">>

COOK == <<".cook">>

\* A chunk of file content: a recipe's source text, named by txt.
Text(txt) == [txt |-> txt]

\* Recipe.parse(txt) of the cooklang package: the parsed recipe, or a parse error.
Recipe_parse(content) ==
    IF content = <<Text("flour")>>
    THEN [err |-> "", metadata |-> <<>>,
          ingredients |-> << [name |-> << "f", "l", "o", "u", "r" >>,
                              quantity |-> Quantity(<<"2">>, << "c", "u", "p", "s" >>),
                              location |-> <<0, 4, 9>>] >>,
          steps |-> << << "M", "i", "x", " ", "f", "l", "o", "u", "r", " ", "w", "i", "t", "h", " ", "w", "a", "t", "e", "r", "." >> >>]
    ELSE IF content = <<Text("salt")>>
    THEN [err |-> "", metadata |-> <<>>,
          ingredients |-> << [name |-> << "s", "a", "l", "t" >>, quantity |-> NoQuantity,
                              location |-> <<0, 4, 8>>] >>,
          steps |-> << << "A", "d", "d", " ", "s", "a", "l", "t", "." >> >>]
    ELSE [err |-> "ParseError", metadata |-> <<>>, ingredients |-> <<>>, steps |-> <<>>]

-----------------------------------------------------------------------------
(* render_file, lines 117-174 *)

\* get_image_path(path), lines 177-183: <<>> stands for None.
get_image_path(f, path) ==
    IF ~EndsWith(path, COOK) THEN [err |-> "AssertionError", path |-> <<>>]
    ELSE IF Exists(f, Resolve(DropLastChars(path, 5) \o <<".jpg">>))
    THEN [err |-> "", path |-> DropLastChars(path, 5) \o <<".jpg">>]
    ELSE IF Exists(f, Resolve(DropLastChars(path, 5) \o <<".png">>))
    THEN [err |-> "", path |-> DropLastChars(path, 5) \o <<".png">>]
    ELSE [err |-> "", path |-> <<>>]

\* jinja_env.get_template("recipe.html").render(...): the page is determined by
\* the template and its context.
recipe_page(parent_folders, recipe, steps, title, has_image, css) ==
    [template |-> "recipe.html", parent_folders |-> parent_folders,
     ingredients |-> recipe.ingredients, steps |-> steps,
     metadata |-> recipe.metadata, title |-> title, has_image |-> has_image,
     is_printable |-> FALSE, css |-> css]

\* The writes as a faulty variant would make them: the printable page not saved.
write_recipe_no_print(f, path, html_dir, index, print, image_path) ==
    LET w1 == write_file(f, html_dir \o <<"/", "index.html">>, index)
        c1 == shutil_copy(w1.fs, path, html_dir)
        c2 == shutil_copy(c1.fs, image_path, html_dir \o <<"/", "img">>)
    IN  IF w1.err # "" THEN w1
        ELSE IF c1.err # "" \/ image_path = <<>> THEN c1
        ELSE c2

\* Lines 141-174: the writes into the recipe's output directory, in order; the
\* first one that raises ends the call.
write_recipe(f, path, html_dir, index, print, image_path) ==
    LET w1 == write_file(f, html_dir \o <<"/", "index.html">>, index)
        w2 == write_file(w1.fs, html_dir \o <<"/", "print.html">>, print)
        c1 == shutil_copy(w2.fs, path, html_dir)
        c2 == shutil_copy(c1.fs, image_path, html_dir \o <<"/", "img">>)
    IN  IF w1.err # "" THEN w1
        ELSE IF w2.err # "" THEN w2
        ELSE IF c1.err # "" \/ image_path = <<>> THEN c1
        ELSE c2

render_file(f, path) ==
    IF ~StartsWith(path, RECIPE_DIR) THEN Raise(f, "AssertionError")
    ELSE
    LET rel_path == DropChars(path, StrLen(RECIPE_DIR) + 1)
        split == split_path(rel_path)
        parent_folders == [split EXCEPT ![Len(split)] = DropLastChars(@, 5)]
        title == parent_folders[Len(parent_folders)]
    IN  IF ~IsFile(f, Resolve(path)) THEN Raise(f, "FileNotFoundError")
        ELSE
        LET recipe == Recipe_parse(f[Resolve(path)].content)
            hl == highlight_steps(recipe.ingredients, recipe.steps)
            image == get_image_path(f, path)
            has_image == image.path # <<>>
            html_dir == DropLastChars(os_path_join(HTML_PATH, rel_path), 5)
            made == makedirs(f, html_dir)
        IN  IF recipe.err # "" THEN Raise(f, recipe.err)
            ELSE IF hl.err # "" THEN Raise(f, hl.err)
            ELSE IF image.err # "" THEN Raise(f, image.err)
            ELSE IF made.err \notin {"", "FileExistsError"} THEN made
            ELSE write_recipe(made.fs, path, html_dir,
                     recipe_page(parent_folders, recipe, hl.steps, title, has_image,
                                 "/static/styles.css"),
                     recipe_page(parent_folders, recipe, hl.steps, title, has_image,
                                 "/static/printable.css"),
                     image.path)

-----------------------------------------------------------------------------
(* render_dir, lines 76-114 *)

\* The condition of line 86: the entries of the old folder that are deleted.
wipe_filter(x) == ~EndsWith(x, <<"/", "static">>)

\* Lines 83-87: rmtree of every entry glob finds that passes the filter.
RECURSIVE rmtree_all(_, _)
rmtree_all(f, xs) ==
    IF xs = {} THEN f
    ELSE LET x == CHOOSE y \in xs : TRUE
         IN  rmtree_all(rmtree(f, x), xs \ {x})

wipe(f, html_dir) ==
    rmtree_all(f, { x \in glob(f, html_dir \o <<"/", "*">>) : wipe_filter(x) })

\* The order os.walk lists the entries of a directory in: the directory's own
\* order, the same at every listing of an unchanged directory; here by name.
listing(names) == SortStrs(names)

\* jinja_env.get_template("folder.html").render(...)
folder_page(parent_folders, sub_folders, recipes) ==
    [template |-> "folder.html", parent_folders |-> parent_folders,
     sub_folders |-> sub_folders, recipes |-> recipes]

RECURSIVE render_dir(_, _)
RECURSIVE render_sub_folders(_, _, _)
RECURSIVE render_files(_, _, _)

\* Lines 109-110: the first sub folder whose render raises ends the loop.
render_sub_folders(f, path, sub_folders) ==
    IF sub_folders = <<>> THEN Ok(f)
    ELSE LET r == render_dir(f, os_path_join(path, Head(sub_folders)))
         IN  IF r.err # "" THEN r
             ELSE render_sub_folders(r.fs, path, Tail(sub_folders))

\* Lines 112-114: the first recipe whose render raises ends the loop.
render_files(f, path, files) ==
    IF files = <<>> THEN Ok(f)
    ELSE IF ~EndsWith(Head(files), COOK) THEN render_files(f, path, Tail(files))
    ELSE LET r == render_file(f, os_path_join(path, Head(files)))
         IN  IF r.err # "" THEN r
             ELSE render_files(r.fs, path, Tail(files))

render_dir(f, path) ==
    IF ~StartsWith(path, RECIPE_DIR) THEN Raise(f, "AssertionError")
    ELSE
    LET rel_path == DropChars(path, StrLen(RECIPE_DIR) + 1)
        html_dir == os_path_join(HTML_PATH, rel_path)
        wiped == wipe(f, html_dir)
        parent_folders == split_path(rel_path)
        here == Resolve(path)
        names == ListDir(wiped, here)
        sub_folders == SortStrs({ n \in names : IsDir(wiped, Append(here, n)) })
        files == listing({ n \in names : ~IsDir(wiped, Append(here, n)) })
        cooks == { n \in names : ~IsDir(wiped, Append(here, n)) /\ EndsWith(n, COOK) }
        recipes == SortStrs({ DropLastChars(n, 5) : n \in cooks })
        rendered == folder_page(parent_folders, sub_folders, recipes)
        made == makedirs(wiped, html_dir)
        written == write_file(made.fs, html_dir \o <<"/", "index.html">>, rendered)
        subs == render_sub_folders(written.fs, path, sub_folders)
    IN  IF ~IsDir(wiped, here) THEN Raise(wiped, "StopIteration")
        ELSE IF made.err \notin {"", "FileExistsError"} THEN made
        ELSE IF written.err # "" THEN written
        ELSE IF subs.err # "" THEN subs
        ELSE render_files(subs.fs, path, files)

-----------------------------------------------------------------------------
(* The process: the main thread, the observer thread that delivers the      *)
(* watch events, the lock, and the filesystem they act on.                  *)

VARIABLES
    fs,            \* the filesystem: source tree, output tree, shared assets
    lock,          \* "free", or the thread holding the rebuild lock (line 13)
    pc,            \* where each thread is
    cur,           \* the event each thread's on_any_event was called with
    queue,         \* the observer's queue of events not yet dispatched
    outcome,       \* what each thread's last render logged: "", "ok" or "error"
    changes,       \* number of changes made to the source tree so far
    log,           \* what the observer thread's handler has logged for directory
                   \* events: "deliver" (line 62), "begin" (line 64), "end"
    ingredients,   \* highlight_steps: the caller's ingredient list
    steps,         \* highlight_steps: the caller's list of step texts
    steps_before,  \* the texts the caller's list held when the call was made
    hl_steps,      \* highlight_steps: the list returned
    hl_pc          \* "off", "call" (before the call) or "done" (returned)

vars == << fs, lock, pc, cur, queue, outcome, changes, log,
           ingredients, steps, steps_before, hl_steps, hl_pc >>
coord_vars == << fs, lock, pc, cur, queue, outcome, changes, log >>
hl_vars == << ingredients, steps, steps_before, hl_steps, hl_pc >>

\* The most changes the environment makes to the source tree.
MaxChanges == 1

Threads == {"main", "observer"}

Event(src_path, is_directory) == [src_path |-> src_path, is_directory |-> is_directory]
NoEvent == Event(<<>>, FALSE)

\* The absolute path string of a resolved path.
RECURSIVE PathStr(_)
PathStr(p) == IF p = <<>> THEN <<>> ELSE PathStr(Parent(p)) \o Sep \o p[Len(p)]

SourceRoot == Resolve(RECIPE_DIR)
OutputRoot == Resolve(HTML_PATH)

\* Names the environment gives to folders and recipe files.
FolderNames == { <<"a">>, <<"static">> }
RecipeNames == { <<"a", ".cook">>, <<"b", ".cook">> }
Texts == { "flour", "bad" }

\* A filesystem built from a set of directories and a function of files.
MakeFS(dirs, files) ==
    [p \in dirs |-> DirNode] @@ [p \in DOMAIN files |-> FileNode(<<files[p]>>)]

Assets == [template |-> "asset"]

BaseDirs == { <<>>, <<<<"static">>>>, SourceRoot }
BaseFiles == (<< <<"static">>, <<"styles.css">> >> :> Assets)

\* Source trees the program may be started on.
SourceTrees ==
    { MakeFS({}, << >>),
      MakeFS({ <<<<"r">>, <<"a">>>> },
             (<<<<"r">>, <<"a", ".cook">>>> :> Text("flour"))
             @@ (<<<<"r">>, <<"b", ".cook">>>> :> Text("salt"))
             @@ (<<<<"r">>, <<"a">>, <<"b", ".cook">>>> :> Text("flour"))),
      MakeFS({},
             (<<<<"r">>, <<"a", ".cook">>>> :> Text("bad"))
             @@ (<<<<"r">>, <<"b", ".cook">>>> :> Text("flour"))
             @@ (<<<<"r">>, <<"b", ".jpg">>>> :> [template |-> "image"])),
      MakeFS({ <<<<"r">>, <<"a">>>>, <<<<"r">>, <<"a">>, <<"a">>>>, <<<<"r">>, <<"static">>>> },
             (<<<<"r">>, <<"a">>, <<"a">>, <<"b", ".cook">>>> :> Text("salt"))
             @@ (<<<<"r">>, <<"static">>, <<"a", ".cook">>>> :> Text("flour"))) }

\* Output trees an earlier run may have left: none, or one with the shared assets
\* and the pages of a folder and a recipe that are gone from the source tree.
OutputTrees ==
    { MakeFS({}, << >>),
      MakeFS({ <<<<"h">>>>, <<<<"h">>, <<"static">>>>, <<<<"h">>, <<"static">>, <<"old">>>>,
               <<<<"h">>, <<"b">>>> },
             (<<<<"h">>, <<"index.html">>>> :> [template |-> "stale"])
             @@ (<<<<"h">>, <<"static">>, <<"old">>, <<"styles.css">>>> :> [template |-> "stale"])
             @@ (<<<<"h">>, <<"b">>, <<"index.html">>>> :> [template |-> "stale"])
             @@ (<<<<"h">>, <<"b">>, <<"print.html">>>> :> [template |-> "stale"])) }

CoordInit ==
    /\ fs \in { src @@ out @@ MakeFS(BaseDirs, BaseFiles) : src \in SourceTrees, out \in OutputTrees }
    /\ lock = "free"
    /\ pc = [t \in Threads |-> IF t = "main" THEN "start" ELSE "unstarted"]
    /\ cur = [t \in Threads |-> NoEvent]
    /\ queue = <<>>
    /\ outcome = [t \in Threads |-> ""]
    /\ changes = 0
    /\ log = <<>>

HLOff ==
    /\ ingredients = <<>>
    /\ steps = <<>>
    /\ steps_before = <<>>
    /\ hl_steps = <<>>
    /\ hl_pc = "off"

Init == CoordInit /\ HLOff

(* main, lines 31-34: the shared assets are copied into the output root.  An *)
(* exception here is not caught and ends main.                               *)
CopyStatic ==
    /\ pc["main"] = "start"
    /\ LET html_static_path == HTML_PATH \o <<"/", "static">>
           copied == copytree(rmtree(fs, html_static_path), STATIC_SRC, html_static_path)
       IN  /\ fs' = copied.fs
           /\ pc' = [pc EXCEPT !["main"] = IF copied.err = "" THEN "watch" ELSE "crashed"]
    /\ UNCHANGED << lock, cur, queue, outcome, changes, log, hl_vars >>

\* main, lines 37-40: the observer thread is started on the recipe folder.
StartObserver ==
    /\ pc["main"] = "watch"
    /\ pc' = [pc EXCEPT !["main"] = "process", !["observer"] = "idle"]
    /\ UNCHANGED << fs, lock, cur, queue, outcome, changes, log, hl_vars >>

\* The handler as a faulty variant would have it: a directory event that
\* arrives while the lock is held is not rendered.
on_any_event_unless_busy(t, event) ==
    /\ cur' = [cur EXCEPT ![t] = event]
    /\ pc' = [pc EXCEPT ![t] = IF event.is_directory /\ lock = "free" THEN "acquire" ELSE "return"]

\* on_any_event, lines 60-61 and 73: a directory event goes on to take the lock,
\* any other event returns at once.
on_any_event(t, event) ==
    /\ cur' = [cur EXCEPT ![t] = event]
    /\ pc' = [pc EXCEPT ![t] = IF event.is_directory THEN "acquire" ELSE "return"]

\* main, lines 43-45: the synthetic event for the whole recipe folder.
SyntheticEvent ==
    /\ pc["main"] = "process"
    /\ on_any_event("main", Event(RECIPE_DIR, TRUE))
    /\ UNCHANGED << fs, lock, queue, outcome, changes, log, hl_vars >>

\* The log after the handler of thread t has logged what for a directory event;
\* kept for the handlers the observer thread runs.
Logged(t, what, event) ==
    IF t = "observer" /\ event.is_directory
    THEN Append(log, [what |-> what, src_path |-> event.src_path])
    ELSE log

\* The process runs: main has not been ended by an exception that no handler
\* of main catches.
Alive == pc["main"] # "exited"

\* The observer's stop flag: set by observer.stop() (line 53), after which its
\* loop takes no further event.
Stopping == pc["main"] \in {"join", "joined"}

\* The observer thread takes the next event off its queue and calls the handler.
Dispatch ==
    /\ pc["observer"] = "idle"
    /\ Alive /\ ~Stopping
    /\ queue # <<>>
    /\ on_any_event("observer", Head(queue))
    /\ queue' = Tail(queue)
    /\ log' = Logged("observer", "deliver", Head(queue))
    /\ UNCHANGED << fs, lock, outcome, changes, hl_vars >>

\* lock.acquire() as a faulty variant would have it: not blocking.
acquire_nonblocking(l) == TRUE

\* lock.acquire(), line 63: blocks until the lock is free.
lock_acquire(l) == l = "free"

Acquire(t) ==
    /\ pc[t] = "acquire"
    /\ Alive
    /\ lock_acquire(lock)
    /\ lock' = t
    /\ pc' = [pc EXCEPT ![t] = "render"]
    /\ log' = Logged(t, "begin", cur[t])
    /\ UNCHANGED << fs, cur, queue, outcome, changes, hl_vars >>

\* Lines 65-70: render_dir on the event's path; an Exception is caught and logged.
Render(t) ==
    /\ pc[t] = "render"
    /\ Alive
    /\ LET r == render_dir(fs, cur[t].src_path)
       IN  /\ fs' = r.fs
           /\ outcome' = [outcome EXCEPT ![t] = IF r.err = "" THEN "ok" ELSE "error"]
    /\ pc' = [pc EXCEPT ![t] = "finally"]
    /\ log' = Logged(t, "end", cur[t])
    /\ UNCHANGED << lock, cur, queue, changes, hl_vars >>

\* The lock after the handler as a faulty variant would leave it: released at the end of
\* the try body, so only when render_dir returned.
release_in_try(l, out) == IF out = "ok" THEN "free" ELSE l

\* finally: lock.release(), lines 71-72: whatever the render's outcome.
lock_release(l, out) == "free"

Release(t) ==
    /\ pc[t] = "finally"
    /\ Alive
    /\ lock' = lock_release(lock, outcome[t])
    /\ pc' = [pc EXCEPT ![t] = "return"]
    /\ UNCHANGED << fs, cur, queue, outcome, changes, log, hl_vars >>

\* Line 73 and the return to the caller: main goes on to its wait loop (line 47),
\* the observer thread to its queue.
\* Where main would go on after the startup event if the handler let the
\* render's exception through to main: a faulty variant.
main_after_event_uncaught(out) == IF out = "error" THEN "exited" ELSE "wait"

\* Where main goes on when the handler has returned from the startup event,
\* lines 45-50: the render's exception having been caught at line 67, the wait
\* loop, whatever the render's outcome.
main_after_event(out) == "wait"

Return(t) ==
    /\ pc[t] = "return"
    /\ Alive
    /\ pc' = [pc EXCEPT ![t] = IF t = "main" THEN main_after_event(outcome[t]) ELSE "idle"]
    /\ UNCHANGED << fs, lock, cur, queue, outcome, changes, log, hl_vars >>

(* The wait loop and the shutdown, lines 47-56.                              *)

\* An interrupt signal while main sleeps (line 50): KeyboardInterrupt is not an
\* Exception, so the handler of line 51 does not catch it and it ends main; the
\* interpreter exits without waiting for the observer thread, which is a daemon
\* thread and ends wherever it is.
Interrupt ==
    /\ pc["main"] = "wait"
    /\ pc' = [pc EXCEPT !["main"] = "exited"]
    /\ UNCHANGED << fs, lock, cur, queue, outcome, changes, log, hl_vars >>

\* An Exception raised while main sleeps: lines 51-54, observer.stop().
SleepError ==
    /\ pc["main"] = "wait"
    /\ pc' = [pc EXCEPT !["main"] = "join"]
    /\ UNCHANGED << fs, lock, cur, queue, outcome, changes, log, hl_vars >>

\* The observer thread finds its stop flag set when the handler it was in, if
\* any, has returned, and ends.
ObserverStop ==
    /\ pc["observer"] = "idle"
    /\ pc["main"] = "join"
    /\ pc' = [pc EXCEPT !["observer"] = "stopped"]
    /\ UNCHANGED << fs, lock, cur, queue, outcome, changes, log, hl_vars >>

\* observer.join(), lines 55-56: returns when the observer thread has ended.
Join ==
    /\ pc["main"] = "join"
    /\ pc["observer"] = "stopped"
    /\ pc' = [pc EXCEPT !["main"] = "joined"]
    /\ UNCHANGED << fs, lock, cur, queue, outcome, changes, log, hl_vars >>

-----------------------------------------------------------------------------
(* The environment: the user changes the source tree, and the watch set up  *)
(* at line 39 queues a directory event for the folder holding the changed   *)
(* entry (before it, a directory event for a folder that appears and a file *)
(* event for a recipe file that appears).                                   *)

InSource(f, p) == Under(SourceRoot, p) /\ Exists(f, p)

Watching == pc["observer"] # "unstarted"

Changed(newfs, events) ==
    /\ Watching /\ Alive /\ ~Stopping
    /\ changes < MaxChanges
    /\ changes' = changes + 1
    /\ fs' = newfs
    /\ queue' = queue \o events
    /\ UNCHANGED << lock, pc, cur, outcome, log, hl_vars >>

DirEvent(p) == Event(PathStr(p), TRUE)
FileEvent(p) == Event(PathStr(p), FALSE)

\* The tree with the entry p, and all beneath it, moved to q.
Moved(f, p, q) ==
    [r \in { x \in DOMAIN f : ~Under(p, x) } \cup { q \o SubSeq(x, Len(p) + 1, Len(x)) : x \in { y \in DOMAIN f : Under(p, y) } }
        |-> IF Under(q, r) /\ (p \o SubSeq(r, Len(q) + 1, Len(r))) \in DOMAIN f /\ ~(r \in DOMAIN f /\ ~Under(p, r))
            THEN f[p \o SubSeq(r, Len(q) + 1, Len(r))]
            ELSE f[r]]

CreateFolder ==
    \E name \in FolderNames :
        LET p == Append(SourceRoot, name)
        IN  /\ ~Exists(fs, p)
            /\ Changed((p :> DirNode) @@ fs, << DirEvent(p), DirEvent(SourceRoot) >>)

CreateRecipe ==
    \E parent \in { d \in DOMAIN fs : InSource(fs, d) /\ IsDir(fs, d) /\ Len(d) <= 2 } :
    \E name \in RecipeNames, txt \in Texts :
        LET p == Append(parent, name)
        IN  /\ ~Exists(fs, p)
            /\ Changed((p :> FileNode(<<Text(txt)>>)) @@ fs, << FileEvent(p), DirEvent(parent) >>)

Delete ==
    \E p \in { x \in DOMAIN fs : InSource(fs, x) /\ x # SourceRoot } :
        /\ IsDir(fs, p) \/ EndsWith(p[Len(p)], COOK)
        /\ Changed([q \in { x \in DOMAIN fs : ~Under(p, x) } |-> fs[q]], << DirEvent(Parent(p)) >>)

Rename ==
    \E p \in { x \in DOMAIN fs : InSource(fs, x) /\ x # SourceRoot } :
    \E name \in FolderNames \cup RecipeNames :
        LET q == Append(Parent(p), name)
        IN  /\ IsDir(fs, p) <=> name \in FolderNames
            /\ IsDir(fs, p) \/ EndsWith(p[Len(p)], COOK)
            /\ ~Exists(fs, q)
            /\ Changed(Moved(fs, p, q), << DirEvent(Parent(p)) >>)

Next ==
    \/ CopyStatic
    \/ StartObserver
    \/ SyntheticEvent
    \/ Dispatch
    \/ \E t \in Threads : Acquire(t)
    \/ \E t \in Threads : Render(t)
    \/ \E t \in Threads : Release(t)
    \/ \E t \in Threads : Return(t)
    \/ Interrupt
    \/ SleepError
    \/ ObserverStop
    \/ Join
    \/ CreateFolder
    \/ CreateRecipe
    \/ Delete
    \/ Rename

Spec == Init /\ [][Next]_vars

\* Thread t is inside on_any_event and can take its next step: it is not
\* waiting for a lock that is held.  This is ENABLED of the thread's handler
\* steps Acquire(t), Render(t), Release(t), Return(t).
Ready(t) ==
    /\ Alive
    /\ \/ pc[t] = "acquire" /\ lock_acquire(lock)
       \/ pc[t] \in {"render", "finally", "return"}

\* Fair scheduling: the observer thread dispatches a queued event, and a thread
\* that can go on inside the handler does (weak fairness of the thread's handler
\* steps, each of which moves the thread on).
Fairness ==
    /\ WF_vars(Dispatch)
    /\ \A t \in Threads : []<>(~Ready(t)) \/ []<><<pc'[t] # pc[t]>>_vars

\* The program started with no output folder left by an earlier run.
InitLive == Init /\ ~Exists(fs, OutputRoot)

SpecLive == InitLive /\ [][Next]_vars /\ Fairness

-----------------------------------------------------------------------------
(* highlight_steps called on its own: the inputs are drawn from bounded     *)
(* sets, the one action is the call.                                        *)

\* The longest ingredient list.
MaxIngredients == 2

\* The step texts of the recipe highlighted.
HLSteps == << <<"a", "b", "c">>, <<"u">> >>

\* Every occurrence span (step index, start, end) within the step texts.
HLLocations ==
    { <<i - 1, s, e>> : i \in 1..Len(HLSteps), s \in 0..3, e \in 1..3 }
    \cap { l \in (0..1) \X (0..3) \X (1..3) : l[2] < l[3] /\ l[3] <= Len(HLSteps[l[1] + 1]) }

HLKinds ==
    { [name |-> <<"f">>, quantity |-> Quantity(<<"2">>, <<"c">>)],
      [name |-> <<"s">>, quantity |-> NoQuantity],
      [name |-> <<"e">>, quantity |-> Quantity(<<"3">>, <<>>)] }

HLIngredients ==
    { [name |-> k.name, quantity |-> k.quantity, location |-> l] : k \in HLKinds, l \in HLLocations }

SeqsUpTo(S, n) == UNION { [1..k -> S] : k \in 0..n }

\* The coordinator before main has run, on a tree without recipes.
CoordOff ==
    /\ fs = MakeFS(BaseDirs, BaseFiles)
    /\ lock = "free"
    /\ pc = [t \in Threads |-> IF t = "main" THEN "start" ELSE "unstarted"]
    /\ cur = [t \in Threads |-> NoEvent]
    /\ queue = <<>>
    /\ outcome = [t \in Threads |-> ""]
    /\ changes = 0
    /\ log = <<>>

\* The recipe "Mix flour with water." with flour, 2 cups, as the parser gives it.
Flour == Recipe_parse(<<Text("flour")>>)

InitHL ==
    /\ CoordOff
    /\ \/ ingredients \in SeqsUpTo(HLIngredients, MaxIngredients) /\ steps = HLSteps
       \/ ingredients = Flour.ingredients /\ steps = Flour.steps
    /\ steps_before = steps
    /\ hl_steps = <<>>
    /\ hl_pc = "call"

\* The call highlight_steps(ingredients, steps).  hl_steps = steps (line 193) binds
\* a second name to the caller's list, so the assignments of line 209 are made to
\* the caller's list, and the list returned is that list.
Highlight ==
    /\ hl_pc = "call"
    /\ LET r == highlight_steps(ingredients, steps)
       IN  /\ steps' = r.steps
           /\ hl_steps' = IF r.err = "" THEN r.steps ELSE <<>>
           /\ hl_pc' = IF r.err = "" THEN "done" ELSE "raised"
    /\ UNCHANGED << ingredients, steps_before, coord_vars >>

NextHL == Highlight

SpecHL == InitHL /\ [][NextHL]_vars

-----------------------------------------------------------------------------
(* render_dir and render_file called on their own, with a path drawn from a  *)
(* set that holds paths under the recipe folder, the folder itself, and      *)
(* paths outside it.                                                         *)

\* Entries outside the recipe folder and the output folder: a folder whose name
\* begins with the recipe folder's name, and a folder in the filesystem root.
Outside ==
    MakeFS({ <<<<"r", "2">>>>, <<<<"r", "2">>, <<"a">>>>, <<<<"a">>>>, <<<<"a">>, <<"b">>>> },
           (<<<<"r", "2">>, <<"a", ".cook">>>> :> Text("flour"))
           @@ (<<<<"a">>, <<"b">>, <<"index.html">>>> :> [template |-> "other"]))

CallTrees ==
    { src @@ out @@ Outside @@ MakeFS(BaseDirs, BaseFiles) : src \in SourceTrees, out \in OutputTrees }

CallPaths ==
    { RECIPE_DIR, RECIPE_DIR \o Sep,
      RECIPE_DIR \o <<"/", "a">>, RECIPE_DIR \o <<"/", "a", ".cook">>,
      RECIPE_DIR \o <<"/", "b", ".cook">>, RECIPE_DIR \o <<"/", "a", "/", "b", ".cook">>,
      RECIPE_DIR \o <<"/", "a", "/", "a">>,
      <<"/", "r", "2">>, <<"/", "r", "2", "/", "a">>, <<"/", "r", "2", "/", "a", ".cook">>,
      HTML_PATH, <<"/", "a">>, <<>> }

\* The call: cur["main"] holds the path and whether render_dir (is_directory)
\* or render_file is called.
InitCall ==
    /\ fs \in CallTrees
    /\ lock = "free"
    /\ pc = [t \in Threads |-> IF t = "main" THEN "call" ELSE "unstarted"]
    /\ cur \in { [t \in Threads |-> IF t = "main" THEN Event(path, d) ELSE NoEvent] :
                    path \in CallPaths, d \in BOOLEAN }
    /\ queue = <<>>
    /\ outcome = [t \in Threads |-> ""]
    /\ changes = 0
    /\ log = <<>>
    /\ HLOff

Call ==
    /\ pc["main"] = "call"
    /\ LET path == cur["main"].src_path
           r == IF cur["main"].is_directory THEN render_dir(fs, path) ELSE render_file(fs, path)
       IN  /\ fs' = r.fs
           /\ outcome' = [outcome EXCEPT !["main"] = IF r.err = "" THEN "ok" ELSE r.err]
    /\ pc' = [pc EXCEPT !["main"] = "returned"]
    /\ UNCHANGED << lock, cur, queue, changes, log, hl_vars >>

\* parent_folders, the breadcrumbs of a page: line 90 for a folder, lines
\* 121-123 for a recipe, of the path relative to the recipe folder (lines 79, 120).
parent_folders_of(path, is_directory) ==
    LET rel_path == DropChars(path, StrLen(RECIPE_DIR) + 1)
        split == split_path(rel_path)
    IN  IF is_directory THEN split
        ELSE [split EXCEPT ![Len(split)] = DropLastChars(@, 5)]

NextCall == Call

SpecCall == InitCall /\ [][NextCall]_vars

-----------------------------------------------------------------------------
(* Properties of highlight_steps *)

\* The markup fragment inserted for an ingredient.
Fragment(ingr) == pre_name \o ingr.name \o post_name \o quantity_str(ingr)

\* The spans lie within their step's text, are not empty, and no two of the same
\* step overlap.
NonOverlapping(ingrs, texts) ==
    /\ \A i \in 1..Len(ingrs) :
          LET l == ingrs[i].location
          IN  l[1] < Len(texts) /\ 0 <= l[2] /\ l[2] < l[3] /\ l[3] <= Len(texts[l[1] + 1])
    /\ \A i, j \in 1..Len(ingrs) :
          i # j /\ ingrs[i].location[1] = ingrs[j].location[1]
              => \/ ingrs[i].location[3] <= ingrs[j].location[2]
                 \/ ingrs[j].location[3] <= ingrs[i].location[2]

\* The text of step k from offset pos on, read left to right: at the start of a
\* span the ingredient's fragment and then on from the span's end, elsewhere the
\* character there.
RECURSIVE Replaced(_, _, _, _)
Replaced(ingrs, text, k, pos) ==
    IF pos >= Len(text) THEN <<>>
    ELSE IF \E i \in 1..Len(ingrs) : ingrs[i].location[1] = k /\ ingrs[i].location[2] = pos
    THEN LET i == CHOOSE i \in 1..Len(ingrs) :
                      ingrs[i].location[1] = k /\ ingrs[i].location[2] = pos
         IN  Fragment(ingrs[i]) \o Replaced(ingrs, text, k, ingrs[i].location[3])
    ELSE <<text[pos + 1]>> \o Replaced(ingrs, text, k, pos + 1)

Expected(ingrs, texts) == [k \in 1..Len(texts) |-> Replaced(ingrs, texts[k], k - 1, 0)]

Orders(n) == { f \in [1..n -> 1..n] : \A i, j \in 1..n : f[i] = f[j] => i = j }

\* C5: for spans that do not overlap, highlight_steps returns each step's text
\* with exactly each span replaced by its ingredient's fragment and every other
\* character kept in place, and the result is the same for every order of the
\* ingredient list.
C5_HighlightReplacesSpans ==
    hl_pc = "done" /\ NonOverlapping(ingredients, steps_before)
        => /\ hl_steps = Expected(ingredients, steps_before)
           /\ \A f \in Orders(Len(ingredients)) :
                 highlight_steps([i \in 1..Len(ingredients) |-> ingredients[f[i]]],
                                 steps_before).steps = hl_steps

\* C5's case: two ingredients of one step, given in the order of their offsets,
\* have been highlighted.
C5_Witness ==
    /\ hl_pc = "done"
    /\ NonOverlapping(ingredients, steps_before)
    /\ Len(ingredients) >= 2
    /\ ingredients[1].location[1] = ingredients[2].location[1]
    /\ ingredients[1].location[2] < ingredients[2].location[2]
    /\ hl_steps # steps_before

\* C6: highlight_steps is a pure transform: after the call the caller's list
\* of steps holds the texts it held before the call.
C6_StepsNotMutated == hl_pc = "done" => steps = steps_before

\* The name element and the quantity element of the inserted markup.
NameElement(text) == pre_name \o text \o post_name
QuantityElement(text) ==
    SubSeq(pre_quantity, 1, Len(pre_quantity) - 1) \o text \o Tail(post_quantity)

\* The fragment for an ingredient: the name element, then, when the ingredient
\* has a quantity, the quantity element around "(amount)" or "(amount unit)".
Shape(ingr) ==
    NameElement(ingr.name)
    \o (IF ~ingr.quantity.present THEN <<>>
        ELSE IF ingr.quantity.unit = <<>>
        THEN QuantityElement(<<"(">> \o ingr.quantity.amount \o <<")">>)
        ELSE QuantityElement(<<"(">> \o ingr.quantity.amount \o <<" ">>
                             \o ingr.quantity.unit \o <<")">>))

\* "Mix <name>flour</name><quantity>(2 cups)</quantity> with water."
MixFlour ==
    << "M", "i", "x", " " >>
    \o << "<", "s", "p", "a", "n", " ", "c", "l", "a", "s", "s", "=", "i", "n", "g", "r", "-", "n", "a", "m", "e", "-", "i", "n", "l", "i", "n", "e", ">" >>
    \o << "f", "l", "o", "u", "r" >> \o << "<", "/", "s", "p", "a", "n", ">" >>
    \o << "<", "s", "p", "a", "n", " ", "c", "l", "a", "s", "s", "=", "i", "n", "g", "r", "-", "q", "u", "a", "n", "t", "i", "t", "y", "-", "i", "n", "l", "i", "n", "e", ">" >>
    \o << "(", "2", " ", "c", "u", "p", "s", ")" >> \o << "<", "/", "s", "p", "a", "n", ">" >>
    \o << " ", "w", "i", "t", "h", " ", "w", "a", "t", "e", "r", "." >>

\* C19: for one ingredient, the step text returned is the text before the span,
\* the name element around the ingredient's name, the quantity element around
\* "(amount)" or "(amount unit)" exactly when the ingredient has a quantity (the
\* unit exactly when it has one), and the text after the span; for "Mix flour
\* with water." with flour, 2 cups, it is the text of MixFlour.
C19_FragmentShape ==
    hl_pc = "done" /\ Len(ingredients) = 1
        => LET ingr == ingredients[1]
               k == ingr.location[1] + 1
               old == steps_before[k]
           IN  /\ hl_steps[k] = SubSeq(old, 1, ingr.location[2]) \o Shape(ingr)
                                    \o SubSeq(old, ingr.location[3] + 1, Len(old))
               /\ \A j \in 1..Len(hl_steps) : j # k => hl_steps[j] = steps_before[j]
               /\ steps_before = Flour.steps => hl_steps = <<MixFlour>>

\* C19's case: the step "Mix flour with water." has been highlighted.
C19_Witness ==
    /\ hl_pc = "done"
    /\ steps_before = Flour.steps
    /\ ingredients = Flour.ingredients
    /\ hl_steps # steps_before

-----------------------------------------------------------------------------
(* Properties of the coordinator and the renderers *)

\* A thread is inside render_dir: it has passed lock.acquire() and its render
\* has not ended.
InRender(t) == pc[t] = "render"

\* The step in which thread t's render_dir call runs and ends.
RenderStep(t) == pc[t] = "render" /\ pc'[t] = "finally"

\* The output directory of a source folder: its path relative to the source
\* root, under the output root.
FolderOut(p) == OutputRoot \o SubSeq(p, Len(SourceRoot) + 1, Len(p))

\* The output directory of a source recipe file: the same, with the recipe
\* extension stripped from the file's name.
RecipeOut(p) ==
    FolderOut(Parent(p)) \o << SubSeq(p[Len(p)], 1, Len(p[Len(p)]) - 1) >>

IndexOf(d) == Append(d, <<"index.html">>)
PrintOf(d) == Append(d, <<"print.html">>)

\* The recipe files and the folders of the source tree beneath (or at) d.
RecipesUnder(f, d) ==
    { p \in DOMAIN f : Under(SourceRoot, p) /\ Under(d, p) /\ IsFile(f, p) /\ EndsWith(p[Len(p)], COOK) }
FoldersUnder(f, d) ==
    { p \in DOMAIN f : Under(SourceRoot, p) /\ Under(d, p) /\ p # d /\ IsDir(f, p) }

Parses(f, p) == Recipe_parse(f[p].content).err = ""

\* The recipe has its output directory, with an index page and a print page.
HasPages(f, p) ==
    /\ IsDir(f, RecipeOut(p))
    /\ IsFile(f, IndexOf(RecipeOut(p)))
    /\ IsFile(f, PrintOf(RecipeOut(p)))

\* The recipe's pages are there and are pages rendered from a recipe.
Rendered(f, p) ==
    /\ HasPages(f, p)
    /\ f[IndexOf(RecipeOut(p))].content[1].template = "recipe.html"
    /\ f[PrintOf(RecipeOut(p))].content[1].template = "recipe.html"

\* C1: at most one thread is inside a render at any time.
C1_OneRenderAtATime ==
    \A t1, t2 \in Threads : InRender(t1) /\ InRender(t2) => t1 = t2

\* C1's case: one thread is inside a render while the other has an event for a
\* directory and waits for the lock.
C1_Witness ==
    \E t1, t2 \in Threads : InRender(t1) /\ pc[t2] = "acquire" /\ lock = t1

\* C2: the lock is held by a thread exactly while that thread is between its
\* lock.acquire() and its lock.release(): a handler that has finished, whether
\* its render returned or raised, does not hold the lock, and the handler that
\* is about to release holds it.
C2_LockFreeAfterHandler ==
    \A t \in Threads : lock = t <=> pc[t] \in {"render", "finally"}

\* C2's case: a handler whose render raised has released the lock and is
\* returning.
C2_Witness ==
    \E t \in Threads :
        pc[t] = "return" /\ cur[t].is_directory /\ outcome[t] = "error" /\ lock = "free"

\* C3: when a directory event for D is handled and a recipe under D fails to
\* parse, every other recipe under D has its output directory with both pages
\* and every folder under D its index page when the render ends.
C3_SiblingsStillRendered ==
    [][\A t \in Threads :
          LET D == Resolve(cur[t].src_path)
          IN  /\ RenderStep(t)
              /\ IsDir(fs, D)
              /\ \E p \in RecipesUnder(fs, D) : ~Parses(fs, p)
              => /\ \A p \in RecipesUnder(fs, D) : Parses(fs, p) => HasPages(fs', p)
                 /\ \A d \in FoldersUnder(fs, D) : IsFile(fs', IndexOf(FolderOut(d)))]_vars

\* C4: when the render of a directory event fails on a recipe, the output
\* directory of every other recipe that had its pages before the event still has
\* them, unchanged, when the render ends.
C4_OtherOutputsUntouched ==
    [][\A t \in Threads :
          /\ RenderStep(t)
          /\ outcome'[t] = "error"
          /\ \E p \in RecipesUnder(fs, Resolve(cur[t].src_path)) : ~Parses(fs, p)
          => \A p \in RecipesUnder(fs, SourceRoot) :
                Parses(fs, p) /\ Rendered(fs, p)
                    => /\ HasPages(fs', p)
                       /\ fs'[IndexOf(RecipeOut(p))] = fs[IndexOf(RecipeOut(p))]
                       /\ fs'[PrintOf(RecipeOut(p))] = fs[PrintOf(RecipeOut(p))]]_vars

\* C7: after a full rebuild that completes, every recipe file under the source
\* root has its output directory, holding index.html and print.html.
C7_FullRebuildComplete ==
    [][\A t \in Threads :
          RenderStep(t) /\ cur[t].src_path = RECIPE_DIR /\ outcome'[t] = "ok"
              => \A p \in RecipesUnder(fs', SourceRoot) : HasPages(fs', p)]_vars

\* C7's case: a full rebuild of a tree with recipes in the root and in a folder
\* has completed.
C7_Witness ==
    \E t \in Threads :
        /\ pc[t] = "finally" /\ cur[t].src_path = RECIPE_DIR /\ outcome[t] = "ok"
        /\ \E p, q \in RecipesUnder(fs, SourceRoot) :
              Len(p) < Len(q) /\ HasPages(fs, p) /\ HasPages(fs, q)

\* The coordinator is idle: main is in its wait loop, the observer thread is
\* waiting for an event and none is queued.
Idle == pc["main"] = "wait" /\ pc["observer"] = "idle" /\ queue = <<>>

\* The output tree: what lies under the output root.
OutputOf(f) == [p \in { q \in DOMAIN f : Under(OutputRoot, q) } |-> f[p]]

\* The filesystem after a full rebuild of f's source tree into an empty output
\* root holding the shared assets.
FromScratch(f) ==
    LET empty == [p \in { q \in DOMAIN f : ~Under(OutputRoot, q) } |-> f[p]]
        assets == copytree(empty, STATIC_SRC, HTML_PATH \o <<"/", "static">>).fs
    IN  render_dir(assets, RECIPE_DIR).fs

\* C8: once every event of a sequence of source changes has been handled and the
\* coordinator is idle, the output tree is the one a full rebuild of the current
\* source tree into an empty output root would produce.
C8_OutputIsFullRebuild ==
    Idle /\ changes > 0 => OutputOf(fs) = OutputOf(FromScratch(fs))

\* The subdirectories of folder d's output directory that are stale: not the
\* shared-assets entry, and neither a folder nor a recipe of d in the source tree.
Stale(f, d) ==
    { x \in { Append(FolderOut(d), n) : n \in ListDir(f, FolderOut(d)) \ { <<"static">> } } :
        /\ IsDir(f, x)
        /\ ~IsDir(f, Append(d, x[Len(x)]))
        /\ ~IsFile(f, Append(d, x[Len(x)] \o COOK)) }

StaticOf(d) == Append(FolderOut(d), <<"static">>)

\* C9: render_dir on a folder whose output directory holds the shared-assets
\* entry and stale subdirectories removes every stale subdirectory and leaves the
\* shared-assets entry and all beneath it unchanged.
C9_WipeKeepsStatic ==
    [][\A t \in Threads :
          LET D == Resolve(cur[t].src_path)
          IN  /\ RenderStep(t)
              /\ IsDir(fs, D)
              /\ IsDir(fs, StaticOf(D))
              /\ Stale(fs, D) # {}
              => /\ \A x \in Stale(fs, D) : ~Exists(fs', x)
                 /\ \A q \in DOMAIN fs \cup DOMAIN fs' :
                       Under(StaticOf(D), q)
                           => q \in DOMAIN fs /\ q \in DOMAIN fs' /\ fs'[q] = fs[q]]_vars

\* C10: a full rebuild run again on the tree a full rebuild has left, the source
\* tree unchanged, leaves the same tree.
C10_FullRebuildIdempotent ==
    [][\A t \in Threads :
          RenderStep(t) /\ cur[t].src_path = RECIPE_DIR
              => render_dir(fs', RECIPE_DIR).fs = fs']_vars

\* C10's case: the observer thread has run a full rebuild of a tree with a recipe
\* after main's full rebuild, and the rebuild ran over an output tree holding
\* that recipe's pages.
C10_Witness ==
    /\ pc["main"] = "wait"
    /\ pc["observer"] = "finally" /\ cur["observer"].src_path = RECIPE_DIR
    /\ outcome["main"] = "ok" /\ outcome["observer"] = "ok"
    /\ \E p \in RecipesUnder(fs, SourceRoot) : HasPages(fs, p)

\* The process has ended: main has returned (line 56) or was ended by an
\* exception.
Exited == pc["main"] \in {"exited", "joined"}

\* C11: when the process has ended after a shutdown was triggered in the wait
\* loop, no render is left cut off: no thread is inside a render, holding the
\* lock it took for it.
C11_ShutdownWaitsForRender ==
    Exited => lock = "free" /\ \A t \in Threads : ~InRender(t)

-----------------------------------------------------------------------------
(* Properties of render_dir and render_file called on their own *)

\* main has left the startup: it is in its wait loop or beyond.
PastStartup == pc["main"] \in {"wait", "join", "joined", "exited"}

\* C13: main is in its wait loop (or beyond) only when the handler of the
\* synthetic event for the source root has run its render, to completion or to a
\* logged failure, and has released the lock; and from that handler main goes
\* on to the wait loop, whether the render completed or failed.
C13_WaitLoopAfterStartupRender ==
    /\ [](PastStartup => /\ cur["main"] = Event(RECIPE_DIR, TRUE)
                         /\ outcome["main"] \in {"ok", "error"}
                         /\ lock # "main")
    /\ [][pc["main"] = "return" /\ pc'["main"] # "return" => pc'["main"] = "wait"]_vars

\* C13's case: the startup render failed, main is in its wait loop, and the
\* observer thread holds the lock and has run the render of a later directory
\* event.
C13_Witness ==
    /\ pc["main"] = "wait" /\ outcome["main"] = "error"
    /\ pc["observer"] = "finally" /\ cur["observer"].is_directory
    /\ lock = "observer"

\* The entries of the log come in rounds of three for one event: delivered,
\* render begun, render ended; a round begins only when the one before has ended.
InRounds(l) ==
    \A i \in 1..Len(l) :
        /\ l[i].what = "deliver" => i = 1 \/ l[i - 1].what = "end"
        /\ l[i].what = "begin" =>
              i > 1 /\ l[i - 1] = [what |-> "deliver", src_path |-> l[i].src_path]
        /\ l[i].what = "end" =>
              i > 1 /\ l[i - 1] = [what |-> "begin", src_path |-> l[i].src_path]

\* C15: the directory events the watch delivers are rendered one at a time in
\* the order delivered: the render of an event has ended before the next event's
\* begins, each delivered event has a render of its own on its own path, and when
\* the observer thread is back at its queue none is left without its render.
C15_EventsRenderedInOrder ==
    /\ InRounds(log)
    /\ pc["observer"] \in {"idle", "stopped"} => log = <<>> \/ log[Len(log)].what = "end"

\* C15's case: two directory events for different folders have been delivered
\* and rendered.
C15_Witness ==
    /\ Len(log) = 6
    /\ log[1].src_path # log[4].src_path
    /\ log[6].what = "end"

\* C16: under fair scheduling every directory event delivered to on_any_event
\* gets the lock, has its render run, and the handler returns with the lock
\* released, whatever the outcome of this and of earlier renders; no handler
\* waits for the lock forever.  (A handler of the observer thread ends without
\* returning only if the process is ended by an interrupt first.)
C16_EveryEventHandled ==
    \A t \in Threads :
        (pc[t] = "acquire") ~> ((pc[t] = "return" /\ outcome[t] # "" /\ lock # t) \/ ~Alive)

\* C16's case: the startup render failed, and the handler of a directory event
\* that had to wait for the lock has rendered and returned with the lock free.
C16_Witness ==
    /\ outcome["main"] = "error"
    /\ pc["observer"] = "return" /\ cur["observer"].is_directory
    /\ outcome["observer"] # ""
    /\ lock = "free"
    /\ Len(log) >= 3

\* The index page in d is the folder page rendered for source folder F.
IsFolderPageOf(f, d, F) ==
    /\ IsFile(f, IndexOf(d))
    /\ f[IndexOf(d)].content[1].template = "folder.html"
    /\ f[IndexOf(d)].content[1].parent_folders = parent_folders_of(PathStr(F), TRUE)

\* The index page in d is the recipe page rendered for recipe file R.
IsRecipePageOf(f, d, R) ==
    /\ IsFile(f, IndexOf(d))
    /\ f[IndexOf(d)].content[1].template = "recipe.html"
    /\ f[IndexOf(d)].content[1].parent_folders = parent_folders_of(PathStr(R), FALSE)

\* C17: after a full rebuild that completes, the index page in every source
\* folder's output directory is that folder's page, and the index page in every
\* recipe's output directory is that recipe's page.
C17_EachNodeOwnsItsPage ==
    [][\A t \in Threads :
          RenderStep(t) /\ cur[t].src_path = RECIPE_DIR /\ outcome'[t] = "ok"
              => /\ \A F \in FoldersUnder(fs', SourceRoot) \cup {SourceRoot} :
                       IsFolderPageOf(fs', FolderOut(F), F)
                 /\ \A R \in RecipesUnder(fs', SourceRoot) :
                       IsRecipePageOf(fs', RecipeOut(R), R)]_vars

\* The same for source trees in which no folder and recipe of one parent have
\* the same stem.
NoSharedStem(f) ==
    \A R \in RecipesUnder(f, SourceRoot) :
        ~IsDir(f, Append(Parent(R), SubSeq(R[Len(R)], 1, Len(R[Len(R)]) - 1)))

PagesOwnedWithoutSharedStem ==
    [][\A t \in Threads :
          RenderStep(t) /\ cur[t].src_path = RECIPE_DIR /\ outcome'[t] = "ok" /\ NoSharedStem(fs')
              => /\ \A F \in FoldersUnder(fs', SourceRoot) \cup {SourceRoot} :
                       IsFolderPageOf(fs', FolderOut(F), F)
                 /\ \A R \in RecipesUnder(fs', SourceRoot) :
                       IsRecipePageOf(fs', RecipeOut(R), R)]_vars

\* The step in which the call runs and ends.
CallStep == pc["main"] = "call" /\ pc'["main"] = "returned"

\* The path is the source root or a descendant of it.
InSourceRoot(path) == StartsWith(path, Sep) /\ Under(SourceRoot, Resolve(path))

\* C12: render_dir and render_file, called with a path that is neither the
\* source root nor a descendant of it, raise an error and leave the whole
\* filesystem as it was.
C12_OutsidePathRejected ==
    [][CallStep /\ ~InSourceRoot(cur["main"].src_path)
          => outcome'["main"] # "ok" /\ fs' = fs]_vars

\* The components c1, ..., cn of a path relative to the source root, root
\* first, the recipe extension stripped from the last one of a recipe path.
Components(path, is_directory) ==
    LET c == SubSeq(Resolve(path), Len(SourceRoot) + 1, Len(Resolve(path)))
    IN  IF is_directory \/ c = <<>> THEN c
        ELSE [c EXCEPT ![Len(c)] = SubSeq(@, 1, Len(@) - 1)]

\* C14: the breadcrumbs computed for a folder or a recipe of the source tree
\* are exactly the components of its path relative to the source root, root
\* first, with the recipe extension stripped from a recipe's last component; for
\* the source root itself they are the empty sequence.
C14_BreadcrumbsAreComponents ==
    LET e == cur["main"]
    IN  /\ pc["main"] = "call"
        /\ InSourceRoot(e.src_path)
        /\ e.is_directory \/ EndsWith(e.src_path, COOK)
        => parent_folders_of(e.src_path, e.is_directory) = Components(e.src_path, e.is_directory)

\* What lies outside the output root is the same in f and g.
SameOutsideOutput(f, g) ==
    \A p \in DOMAIN f \cup DOMAIN g :
        ~Under(OutputRoot, p) => p \in DOMAIN f /\ p \in DOMAIN g /\ f[p] = g[p]

\* C18: a call of render_dir or render_file with a path it accepts (the check
\* of lines 78 and 119 passes) changes nothing outside the output root.
C18_WritesOnlyUnderOutputRoot ==
    [][CallStep /\ StartsWith(cur["main"].src_path, RECIPE_DIR) => SameOutsideOutput(fs, fs')]_vars

\* Every render of an event of the coordinator changes nothing outside the
\* output root.
RendersStayInOutput ==
    [][\A t \in Threads : RenderStep(t) => SameOutsideOutput(fs, fs')]_vars

\* Calls with a path in the source root change nothing outside the output root.
CallsInRootStayInOutput ==
    [][CallStep /\ InSourceRoot(cur["main"].src_path) => SameOutsideOutput(fs, fs')]_vars

\* Breadcrumbs of every path but the source root's.
BreadcrumbsBelowRoot ==
    LET e == cur["main"]
    IN  /\ pc["main"] = "call"
        /\ InSourceRoot(e.src_path) /\ Resolve(e.src_path) # SourceRoot
        /\ e.is_directory \/ EndsWith(e.src_path, COOK)
        => parent_folders_of(e.src_path, e.is_directory) = Components(e.src_path, e.is_directory)

=============================================================================
